---- MODULE Spec2Model ----
(***************************************************************************)
(* Entity-resolution and credential-caching layer of the D365 F&O MCP      *)
(* server: AuthManager (auth.ts), EntityManager (entityManager.ts) and     *)
(* makeApiCall (api.ts), run as cooperating async calls on one event loop. *)
(* Every action is the code that runs between two suspension points.       *)
(* findBestMatch, getEntitySchema and buildSmartFilterString                *)
(* (mcp-server.ts) are also specified as functions of their inputs, and    *)
(* makeApiCall and the tool handlers as sequences of observable effects.   *)
(***************************************************************************)
EXTENDS Integers, Sequences, FiniteSets, TLC

\* ---------------------------------------------------------------- bounds
NumProcs == 2
MaxCalls == 3
MaxTime == 2
MaxLifetime == 2
MaxEntries == 2
MaxFilters == 2

\* ------------------------------------------------------------- constants
\* proactive-refresh margin of the credential cache, in clock ticks
RefreshMargin == 2
\* FUZZY_THRESHOLD = 0.6, in tenths
FUZZY_THRESHOLD == 6

Procs == 1..NumProcs
\* the two module-level AuthManager instances: api.ts and EntityManager
Managers == {"api", "entity"}
Lifetimes == 1..MaxLifetime

\* ------------------------------------------------------------------ data
\* names are strings of characters, written as sequences
nCs == <<"C", "s">>
nC == <<"C">>
nVs == <<"V", "s">>
qc == <<"c">>
qz == <<"z", "z">>

Queries == {qc, qz}
SetNames == {nCs, nVs}

\* service document records: name (logical) and url (canonical)
Catalog1 == << [name |-> qc, url |-> nCs], [name |-> nVs, url |-> nVs] >>
Catalog2 == << [name |-> nVs, url |-> nVs] >>
Catalogs == {Catalog1, Catalog2}

\* parsed $metadata: EntityType name -> schema
\* property names are strings of characters; a declared type is written as
\* its dot-separated segments
fId == <<"I", "d">>
fID == <<"I", "D">>
fSt == <<"S", "t">>
tString == <<"Edm", "String">>
tInt32 == <<"Edm", "Int32">>
tNoYes == <<"Microsoft", "Dynamics", "DataEntities", "NoYes">>
tEdmx == <<"Edmx", "Status">>
Field(n, t, k) == [name |-> n, type |-> t, isKey |-> k]

SchemaOf(n) == [name |-> n, fields |-> << Field(fId, tString, TRUE) >>]

\* schemas handed to the filter builder: a key and an enum property; two
\* properties that differ in case only; no property; a namespace that
\* begins with the letters Edm
FilterSchemas ==
    {[name |-> nC, fields |-> << Field(fId, tString, TRUE), Field(fSt, tNoYes, FALSE) >>],
     [name |-> nC, fields |-> << Field(fID, tNoYes, FALSE), Field(fId, tInt32, TRUE) >>],
     [name |-> nC, fields |-> << >>],
     [name |-> nC, fields |-> << Field(fSt, tEdmx, FALSE) >>]}

\* filter objects: own string keys in insertion order, each key once
k7 == <<"7">>
k12 == <<"1", "2">>
FilterKeys == {<<"i", "d">>, fId, <<"s", "t">>, <<"x">>, k7, k12}
FilterValues == {"usmf", "Yes"}
FilterObjects ==
    UNION {{f \in [1..n -> FilterKeys \X FilterValues] :
               \A i, j \in 1..n : f[i][1] = f[j][1] => i = j} : n \in 0..MaxFilters}
Metadata1 == {SchemaOf(nC), SchemaOf(nVs)}
Metadata2 == {SchemaOf(nC)}
Metadatas == {Metadata1, Metadata2}

nD == <<"D">>
qCz == <<"C", "z">>

\* every service document of at most MaxEntries records
Entries == [name : {nCs, nVs, qc}, url : SetNames]
ServiceDocuments == UNION {[1..n -> Entries] : n \in 0..MaxEntries}
NameQueries == {nCs, nVs, qc, qz, qCz}

\* the outcome of an HTTP request: a 2xx response with a body, a non-2xx
\* status, a network error, a body without the expected sections
FailureKinds == {"status", "network", "malformed"}
Responses(bodies) == [kind : {"ok"}, body : bodies] \cup [kind : FailureKinds, body : {<<>>}]

\* $metadata documents: the EntityType elements of the schemas, and the
\* EntitySet elements of the EntityContainer as <<set name, type name>>
TypeNames == {nC, nD, nVs}
Containers(T) == {S \in SUBSET (SetNames \X T) : \A a, b \in S : a[1] = b[1] => a = b}
MetadataDocuments == UNION {[types : {T}, sets : Containers(T)] : T \in SUBSET TypeNames}
LookupNames == {nCs, nVs, nC}

\* a nullable field: null, or a value
Null == [null |-> TRUE, val |-> <<>>]
Some(v) == [null |-> FALSE, val |-> v]
NullSet == [null |-> TRUE, val |-> {}]
SomeSet(s) == [null |-> FALSE, val |-> s]

\* results of a call
NoResult == [kind |-> "none", val |-> <<>>]
NotFound == [kind |-> "null", val |-> <<>>]
Found(n) == [kind |-> "value", val |-> n]
Rejected == [kind |-> "CredentialError", val |-> <<>>]
ApiOk == [kind |-> "ok", val |-> <<>>]
ApiError == [kind |-> "isError", val |-> <<>>]
Thrown == [kind |-> "thrown", val |-> <<>>]

VARIABLES now, token, expiresAt, pending, issued, tokenRequests,
          entityCache, fuse, schemaCache,
          pc, op, arg, result, tok, via,
          catalogRequests, metadataRequests, calls, last,
          input, output, applied,
          step, local, effects, twin

authVars == <<token, expiresAt, pending, issued, tokenRequests>>
cacheVars == <<entityCache, fuse, schemaCache>>
procVars == <<pc, op, arg, result, tok, via>>
countVars == <<catalogRequests, metadataRequests, calls, last>>
\* a pure function applied once: its arguments, its return value
\* a handler run on its own: its position, its local variables and the
\* calls, requests and notifications it has made so far
\* twin is a second run of the same handler, on the same input and the same
\* service responses, whose notifications fail or succeed on their own
seqVars == <<step, local, effects, twin>>
fnVars == <<input, output, applied, seqVars>>
vars == <<now, authVars, cacheVars, procVars, countVars, fnVars>>

\* ------------------------------------------------------------ AuthManager
\* the cached credential is served without a request
Fresh_NoMargin(m) == token[m] # 0 /\ expiresAt[m] > now

Fresh(m) == token[m] # 0 /\ expiresAt[m] - now >= RefreshMargin

\* the cached credential has not expired yet
Unexpired(m) == token[m] # 0 /\ expiresAt[m] > now

JoinsInFlight_NoMemo(m) == FALSE

\* a caller that needs a refresh awaits the memoized in-flight exchange
JoinsInFlight(m) == pending[m]

\* the AuthManager a call uses
ManagerOf(o) == IF o = "makeApiCall" THEN "api" ELSE "entity"

\* the request a call sends once it holds a token
FetchOf(o) == CASE o = "findBestMatch" -> "fetchList"
                [] o = "getEntitySchema" -> "fetchMeta"
                [] OTHER -> "apiFetch"

\* ---------------------------------------------------------- EntityManager
\* String.prototype.toLowerCase on the characters in use
Lower(c) == CASE c = "C" -> "c" [] c = "V" -> "v" [] c = "D" -> "d"
               [] c = "I" -> "i" [] c = "S" -> "s" [] OTHER -> c
LowerStr(s) == [i \in 1..Len(s) |-> Lower(s[i])]

At(p, t, i) == i + Len(p) <= Len(t) /\ SubSeq(t, i + 1, i + Len(p)) = p
IsSubstr(p, t) == \E i \in 0..(Len(t) - Len(p)) : At(p, t, i)

\* String.prototype.indexOf
IndexOf(p, t) == CHOOSE i \in 0..(Len(t) - Len(p)) : At(p, t, i) /\ \A j \in 0..(i - 1) : ~At(p, t, j)

\* substituted characters between two strings of one length
Errors(p, t) == Cardinality({i \in 1..Len(p) : p[i] # t[i]})

MaxOf(a, b) == IF a >= b THEN a ELSE b

\* Fuse's score of a pattern against one key value, in thousandths, on the
\* alignments the names in use exhibit: 0 for equal strings (compared in
\* lower case), errors / length + location / distance (distance 100) with a
\* floor of 0.001 for a contained pattern or substituted characters, 1 for
\* no match
KeyScore(q, text) ==
    LET p == LowerStr(q)
        t == LowerStr(text)
    IN  IF p = t THEN 0
        ELSE IF Len(p) = 0 THEN 1000
        ELSE IF IsSubstr(p, t) THEN MaxOf(1, IndexOf(p, t) * 10)
        ELSE IF Len(p) = Len(t) /\ Errors(p, t) < Len(p) THEN (Errors(p, t) * 1000) \div Len(p)
        ELSE 1000

\* a key is a match when its score is within the threshold option
KeyMatches(s) == s <= FUZZY_THRESHOLD * 100

\* keys: ['name', 'url'], weight 1/2 each. An item's score is the product
\* over its matching keys of score ^ (1/2), a score of 0 counting as
\* Number.EPSILON: kept as the number of exact keys and the product of the
\* other matching keys' scores (the square of the score, in millionths)
ItemScore(q, e) ==
    LET sn == KeyScore(q, e.name)
        su == KeyScore(q, e.url)
        Factor(k) == IF KeyMatches(k) /\ k > 0 THEN k ELSE 1000
        Exact(k) == IF k = 0 THEN 1 ELSE 0
    IN  [hit |-> KeyMatches(sn) \/ KeyMatches(su),
         exact |-> Exact(sn) + Exact(su),
         rest |-> Factor(sn) * Factor(su)]

\* a.score < b.score
Lower_Score(a, b) == a.exact > b.exact \/ (a.exact = b.exact /\ a.rest < b.rest)

WithinThreshold_Always(sc) == TRUE

\* results[0].score <= FUZZY_THRESHOLD
WithinThreshold(sc) == sc.exact > 0 \/ sc.rest <= FUZZY_THRESHOLD * FUZZY_THRESHOLD * 10000

\* fuse.search(query): the indices of the items with a matching key
FuseHits(items, q) == {i \in 1..Len(items) : ItemScore(q, items[i]).hit}

FirstOfEqual_LastSeen(i, j) == i > j

\* no sortFn is passed to new Fuse: of two results with equal scores the one
\* with the lower index in the list comes first
FirstOfEqual(i, j) == i < j

\* results[0]: lowest score first, then catalog order
FuseBest(items, q) ==
    CHOOSE i \in FuseHits(items, q) :
        \A j \in FuseHits(items, q) \ {i} :
            \/ Lower_Score(ItemScore(q, items[i]), ItemScore(q, items[j]))
            \/ ~Lower_Score(ItemScore(q, items[j]), ItemScore(q, items[i])) /\ FirstOfEqual(i, j)

Canonical_LogicalName(item) == item.name

\* results[0].item.url
Canonical(item) == item.url

SearchResult_EmptyThrows(cache, index, q) ==
    IF index.null \/ Len(cache.val) = 0 THEN Thrown
    ELSE IF FuseHits(index.val, q) # {}
              /\ WithinThreshold(ItemScore(q, index.val[FuseBest(index.val, q)]))
         THEN Found(Canonical(index.val[FuseBest(index.val, q)]))
         ELSE NotFound

\* findBestMatch after the cache check, on the given cache and index
SearchResult(cache, index, q) ==
    IF index.null \/ Len(cache.val) = 0 THEN NotFound
    ELSE IF FuseHits(index.val, q) # {}
              /\ WithinThreshold(ItemScore(q, index.val[FuseBest(index.val, q)]))
         THEN Found(Canonical(index.val[FuseBest(index.val, q)]))
         ELSE NotFound

NeedsCatalogFetch_RetryEmpty == entityCache.null \/ Len(entityCache.val) = 0

\* if (!this.entityCache): an empty array is truthy
NeedsCatalogFetch == entityCache.null

NeedsMetadataFetch_RetryEmpty == schemaCache.null \/ schemaCache.val = {}

\* if (!this.schemaCache): an empty object is truthy
NeedsMetadataFetch == schemaCache.null

HasKey(map, n) == \E s \in map : s.name = n
EndsWithS(n) == Len(n) > 0 /\ n[Len(n)] = "s"
Singular(n) == SubSeq(n, 1, Len(n) - 1)

\* getEntitySchema after the cache check: direct key, then trailing 's' stripped
SchemaResult(map, n) ==
    IF HasKey(map, n) THEN Found(n)
    ELSE IF EndsWithS(n) /\ HasKey(map, Singular(n)) THEN Found(Singular(n))
    ELSE NotFound

FetchEntityList_Rethrows(resp) ==
    [threw |-> resp.kind # "ok", val |-> IF resp.kind = "ok" THEN resp.body ELSE <<>>]

\* fetchEntityList once it holds a token: the records of a 2xx body; on any
\* failure inside the try block the catch returns []
FetchEntityList(resp) ==
    [threw |-> FALSE, val |-> IF resp.kind = "ok" THEN resp.body ELSE <<>>]

\* findBestMatch on an instance whose entityCache is null, given the
\* response to its catalog request
FindBestMatch(resp, q) ==
    LET fetched == FetchEntityList(resp) IN
    IF fetched.threw THEN Thrown
    ELSE SearchResult(Some(fetched.val), Some(fetched.val), q)

FetchAndParseMetadata_Rethrows(resp) ==
    [threw |-> resp.kind # "ok",
     val |-> IF resp.kind = "ok" THEN {SchemaOf(n) : n \in resp.body.types} ELSE {}]

\* fetchAndParseMetadata once it holds a token: one schema per EntityType
\* element, keyed by the type's Name; the EntityContainer is not read. On a
\* missing section or any failure inside the try block it returns {}
FetchAndParseMetadata(resp) ==
    [threw |-> FALSE,
     val |-> IF resp.kind = "ok" THEN {SchemaOf(n) : n \in resp.body.types} ELSE {}]

\* getEntitySchema on an instance whose schemaCache is null, given the
\* response to its $metadata request
GetEntitySchema(resp, n) ==
    LET parsed == FetchAndParseMetadata(resp) IN
    IF parsed.threw THEN Thrown
    ELSE SchemaResult(parsed.val, n)

\* ------------------------------------------------------------ mcp-server
FindField_CaseSensitive(schema, key) ==
    LET hits == {i \in 1..Len(schema.fields) : schema.fields[i].name = key}
    IN  IF hits = {} THEN 0 ELSE CHOOSE i \in hits : \A j \in hits : i <= j

\* schema.fields.find(f => f.name.toLowerCase() === key.toLowerCase()): the
\* index of the first such field, 0 for undefined
FindField(schema, key) ==
    LET hits == {i \in 1..Len(schema.fields) : LowerStr(schema.fields[i].name) = LowerStr(key)}
    IN  IF hits = {} THEN 0 ELSE CHOOSE i \in hits : \A j \in hits : i <= j

\* schemaField.type.startsWith('Edm.')
StartsWithEdm(type) == Len(type) >= 2 /\ type[1] = "Edm"

\* a declared type as the string it is written as
RECURSIVE Dotted(_)
Dotted(type) ==
    IF Len(type) = 0 THEN <<>>
    ELSE IF Len(type) = 1 THEN <<type[1]>>
    ELSE <<type[1], ".">> \o Dotted(Tail(type))

TypedLiteral_NoPrefix(field, value) == field.name \o <<" eq ", "'", value, "'">>

\* `${schemaField.name} eq ${schemaField.type}'${value}'`
TypedLiteral(field, value) == field.name \o <<" eq ">> \o Dotted(field.type) \o <<"'", value, "'">>

StringLiteral_Dropped(name, value) == <<>>

\* `${schemaField.name} eq '${value}'` and `${key} eq '${value}'`
StringLiteral(name, value) == name \o <<" eq ", "'", value, "'">>

\* the clause the map callback returns for one entry of the filter object
ClauseFor(schema, key, value) ==
    LET i == FindField(schema, key) IN
    IF i = 0 THEN StringLiteral(key, value)
    ELSE IF StartsWithEdm(schema.fields[i].type) THEN StringLiteral(schema.fields[i].name, value)
    ELSE TypedLiteral(schema.fields[i], value)

\* a property key that is a canonical array index: decimal digits without a
\* leading zero
Digits == {"0", "1", "2", "3", "4", "5", "6", "7", "8", "9"}
DigitValue(c) == CASE c = "0" -> 0 [] c = "1" -> 1 [] c = "2" -> 2 [] c = "3" -> 3
                   [] c = "4" -> 4 [] c = "5" -> 5 [] c = "6" -> 6 [] c = "7" -> 7
                   [] c = "8" -> 8 [] OTHER -> 9
IsIndexKey(k) ==
    /\ Len(k) > 0
    /\ \A i \in 1..Len(k) : k[i] \in Digits
    /\ Len(k) > 1 => k[1] # "0"

RECURSIVE IndexValue(_)
IndexValue(k) == IF Len(k) = 0 THEN 0 ELSE 10 * IndexValue(SubSeq(k, 1, Len(k) - 1)) + DigitValue(k[Len(k)])

ObjectEntries_Insertion(obj) == obj

\* Object.entries of an object whose properties were inserted in the order
\* of obj: index keys in ascending numeric order, then the other keys in
\* insertion order
ObjectEntries(obj) ==
    SortSeq(SelectSeq(obj, LAMBDA e : IsIndexKey(e[1])),
            LAMBDA a, b : IndexValue(a[1]) < IndexValue(b[1]))
        \o SelectSeq(obj, LAMBDA e : ~IsIndexKey(e[1]))

\* filterClauses: one clause per entry, in the order of Object.entries
FilterClauses(filterObject, schema) ==
    LET entries == ObjectEntries(filterObject) IN
    [i \in 1..Len(entries) |-> ClauseFor(schema, entries[i][1], entries[i][2])]

\* Array.prototype.join
RECURSIVE Join(_, _)
Join(parts, sep) ==
    IF Len(parts) = 0 THEN <<>>
    ELSE IF Len(parts) = 1 THEN parts[1]
    ELSE parts[1] \o <<sep>> \o Join(Tail(parts), sep)

ReturnsNull_IgnoresEmpty(filterObject, schema) == filterObject.null \/ schema.null

\* !filterObject || !schema || Object.keys(filterObject).length === 0
ReturnsNull(filterObject, schema) ==
    filterObject.null \/ schema.null \/ Len(filterObject.val) = 0

ConsoleWarnings_Silent(filterObject, schema) == <<>>

\* the console.warn calls of the map callback: the keys without a field
ConsoleWarnings(filterObject, schema) ==
    LET entries == ObjectEntries(filterObject) IN
    SelectSeq([i \in 1..Len(entries) |-> entries[i][1]],
              LAMBDA k : FindField(schema, k) = 0)

\* buildSmartFilterString(filterObject, schema): the value it returns, the
\* clause array it built, the lines it wrote with console.warn and the
\* notifications it sent to the client (it has no means to send one)
BuildSmartFilterString(filterObject, schema) ==
    IF ReturnsNull(filterObject, schema)
    THEN [ret |-> Null, clauses |-> <<>>, console |-> <<>>, notifications |-> <<>>]
    ELSE [ret |-> Some(Join(FilterClauses(filterObject.val, schema.val), " and ")),
          clauses |-> FilterClauses(filterObject.val, schema.val),
          console |-> ConsoleWarnings(filterObject.val, schema.val),
          notifications |-> <<>>]

\* ------------------------------------------------------------------ Init
ServerInit ==
    /\ now = 0
    /\ token = [m \in Managers |-> 0]
    /\ expiresAt = [m \in Managers |-> 0]
    /\ pending = [m \in Managers |-> FALSE]
    /\ issued = 0
    /\ tokenRequests = [m \in Managers |-> 0]
    /\ entityCache = Null
    /\ fuse = Null
    /\ schemaCache = NullSet
    /\ pc = [p \in Procs |-> "idle"]
    /\ op = [p \in Procs |-> "none"]
    /\ arg = [p \in Procs |-> <<>>]
    /\ result = [p \in Procs |-> NoResult]
    /\ tok = [p \in Procs |-> 0]
    /\ via = [p \in Procs |-> "none"]
    /\ catalogRequests = 0
    /\ metadataRequests = 0
    /\ calls = 0
    /\ last = 0

NoInput == [fn |-> "none"]
NoOutput == [kind |-> "none", val |-> <<>>]

NoLocal == [corrected |-> Null, schema |-> Null, url |-> Null, plan |-> Null, status |-> 0,
            contentType |-> "none", body |-> "none", error |-> "none"]

\* a run of a handler: where it is, its local variables, what it has done
\* and what it has returned
Run == [step |-> step, local |-> local, effects |-> effects, output |-> output]
NoRun == [step |-> "none", local |-> NoLocal, effects |-> <<>>, output |-> NoOutput]

\* no handler is running on its own
SeqIdle ==
    /\ step = "none"
    /\ local = NoLocal
    /\ effects = <<>>
    /\ twin = NoRun

Init ==
    /\ ServerInit
    /\ input = NoInput
    /\ output = NoOutput
    /\ applied = FALSE
    /\ SeqIdle

\* --------------------------------------------------------------- actions
\* the clock advances
Tick ==
    /\ now < MaxTime
    /\ now' = now + 1
    /\ UNCHANGED <<authVars, cacheVars, procVars, countVars, fnVars>>

\* the HTTP requests issued by the calls in W once they hold a token
SendRequests(W, ops) ==
    /\ catalogRequests' = catalogRequests + Cardinality({p \in W : ops[p] = "findBestMatch"})
    /\ metadataRequests' = metadataRequests + Cardinality({p \in W : ops[p] = "getEntitySchema"})

\* getAuthToken() as called by p for operation o, up to its first suspension:
\* a fresh credential is returned and the caller's request goes out; otherwise
\* the caller awaits the in-flight exchange, starting it if there is none
GetAuthToken(p, o) ==
    LET m == ManagerOf(o) IN
    IF Fresh(m)
    THEN /\ pc' = [pc EXCEPT ![p] = FetchOf(o)]
         /\ tok' = [tok EXCEPT ![p] = token[m]]
         /\ via' = [via EXCEPT ![p] = "cached"]
         /\ SendRequests({p}, [op EXCEPT ![p] = o])
         /\ UNCHANGED <<pending, tokenRequests>>
    ELSE /\ pc' = [pc EXCEPT ![p] = "awaitToken"]
         /\ via' = [via EXCEPT ![p] = IF JoinsInFlight(m) THEN "joined" ELSE "exchange"]
         /\ pending' = [pending EXCEPT ![m] = TRUE]
         /\ tokenRequests' = [tokenRequests EXCEPT ![m] = IF JoinsInFlight(m) THEN @ ELSE @ + 1]
         /\ tok' = [tok EXCEPT ![p] = 0]
         /\ SendRequests({}, op)

\* a call begins in a slot that is free or whose last call has returned
Begin(p, o, a) ==
    /\ pc[p] \in {"idle", "done"}
    /\ calls < MaxCalls
    /\ calls' = calls + 1
    /\ last' = p
    /\ op' = [op EXCEPT ![p] = o]
    /\ arg' = [arg EXCEPT ![p] = a]

\* findBestMatch(query) up to its first suspension, or to its return
CallFindBestMatch(p, q) ==
    /\ Begin(p, "findBestMatch", q)
    /\ IF NeedsCatalogFetch
       THEN /\ GetAuthToken(p, "findBestMatch")
            /\ result' = [result EXCEPT ![p] = NoResult]
       ELSE /\ pc' = [pc EXCEPT ![p] = "done"]
            /\ result' = [result EXCEPT ![p] = SearchResult(entityCache, fuse, q)]
            /\ SendRequests({}, op)
            /\ tok' = [tok EXCEPT ![p] = 0]
            /\ via' = [via EXCEPT ![p] = "none"]
            /\ UNCHANGED <<pending, tokenRequests>>
    /\ UNCHANGED <<now, token, expiresAt, issued, cacheVars, fnVars>>

\* getEntitySchema(entityName) up to its first suspension, or to its return
CallGetEntitySchema(p, n) ==
    /\ Begin(p, "getEntitySchema", n)
    /\ IF NeedsMetadataFetch
       THEN /\ GetAuthToken(p, "getEntitySchema")
            /\ result' = [result EXCEPT ![p] = NoResult]
       ELSE /\ pc' = [pc EXCEPT ![p] = "done"]
            /\ result' = [result EXCEPT ![p] = SchemaResult(schemaCache.val, n)]
            /\ SendRequests({}, op)
            /\ tok' = [tok EXCEPT ![p] = 0]
            /\ via' = [via EXCEPT ![p] = "none"]
            /\ UNCHANGED <<pending, tokenRequests>>
    /\ UNCHANGED <<now, token, expiresAt, issued, cacheVars, fnVars>>

\* makeApiCall(...) up to the token it awaits
CallMakeApiCall(p) ==
    /\ Begin(p, "makeApiCall", <<>>)
    /\ GetAuthToken(p, "makeApiCall")
    /\ result' = [result EXCEPT ![p] = NoResult]
    /\ UNCHANGED <<now, token, expiresAt, issued, cacheVars, fnVars>>

Waiters_OnlyFirst(m) ==
    {p \in Procs : pc[p] = "awaitToken" /\ ManagerOf(op[p]) = m /\ via[p] = "exchange"}

\* the calls awaiting the exchange of manager m
Waiters(m) == {p \in Procs : pc[p] = "awaitToken" /\ ManagerOf(op[p]) = m}

\* the token endpoint answers with a token and its lifetime: the credential is
\* cached with expiry now + lifetime and every waiter goes on with it
TokenExchangeOk(m, lifetime) ==
    /\ pending[m]
    /\ issued' = issued + 1
    /\ token' = [token EXCEPT ![m] = issued + 1]
    /\ expiresAt' = [expiresAt EXCEPT ![m] = now + lifetime]
    /\ pending' = [pending EXCEPT ![m] = FALSE]
    /\ pc' = [p \in Procs |-> IF p \in Waiters(m) THEN FetchOf(op[p]) ELSE pc[p]]
    /\ tok' = [p \in Procs |-> IF p \in Waiters(m) THEN issued + 1 ELSE tok[p]]
    /\ SendRequests(Waiters(m), op)
    /\ UNCHANGED <<now, tokenRequests, cacheVars, op, arg, result, via, calls, last, fnVars>>

KeepsOnFailure_Poison(m) == FALSE

\* after a failed exchange the previous credential stays usable while unexpired
KeepsOnFailure(m) == Unexpired(m)

TokenFailureResult_Swallowed(o) == IF o = "makeApiCall" THEN ApiOk ELSE NotFound

\* how a waiter's operation ends when no credential can be had
TokenFailureResult(o) == IF o = "makeApiCall" THEN ApiError ELSE Rejected

TokenErrorCaught_InsideTry(o) == o # "makeApiCall"

\* fetchEntityList and fetchAndParseMetadata await the token before their
\* try block: its rejection is not caught there
TokenErrorCaught(o) == FALSE

\* the waiters whose call ends with the empty result of a caught error
Recovered(m, o) == {p \in Waiters(m) : op[p] = o /\ TokenErrorCaught(o)}

\* the token exchange fails: the cache is left as it was; waiters get the
\* previous credential if it is still usable, the CredentialError otherwise
TokenExchangeFail(m) ==
    /\ pending[m]
    /\ pending' = [pending EXCEPT ![m] = FALSE]
    /\ IF KeepsOnFailure(m)
       THEN /\ pc' = [p \in Procs |-> IF p \in Waiters(m) THEN FetchOf(op[p]) ELSE pc[p]]
            /\ tok' = [p \in Procs |-> IF p \in Waiters(m) THEN token[m] ELSE tok[p]]
            /\ via' = [p \in Procs |-> IF p \in Waiters(m) THEN "fallback" ELSE via[p]]
            /\ SendRequests(Waiters(m), op)
            /\ UNCHANGED <<result, token, expiresAt, cacheVars>>
       ELSE /\ pc' = [p \in Procs |-> IF p \in Waiters(m) THEN "done" ELSE pc[p]]
            /\ result' = [p \in Procs |->
                             IF p \notin Waiters(m) THEN result[p]
                             ELSE IF TokenErrorCaught(op[p]) THEN NotFound
                             ELSE TokenFailureResult(op[p])]
            /\ via' = [p \in Procs |-> IF p \in Waiters(m) THEN "error" ELSE via[p]]
            /\ entityCache' = IF Recovered(m, "findBestMatch") # {} THEN Some(<<>>) ELSE entityCache
            /\ fuse' = IF Recovered(m, "findBestMatch") # {} THEN Some(<<>>) ELSE fuse
            /\ schemaCache' = IF Recovered(m, "getEntitySchema") # {} THEN SomeSet({}) ELSE schemaCache
            /\ SendRequests({}, op)
            /\ UNCHANGED <<tok, token, expiresAt>>
    /\ UNCHANGED <<now, issued, tokenRequests, op, arg, calls, last, fnVars>>

IndexAfterFetch_BuiltOnce(index, cat) == IF index.null THEN Some(cat) ELSE index

\* line 116: the index is built anew from the list just stored, in the same
\* synchronous block as the assignment of line 115
IndexAfterFetch(index, cat) == Some(cat)

\* fetchEntityList returns the service document; findBestMatch stores it,
\* builds the index and searches
CatalogFetchOk(p, cat) ==
    /\ pc[p] = "fetchList"
    /\ entityCache' = Some(cat)
    /\ fuse' = IndexAfterFetch(fuse, cat)
    /\ result' = [result EXCEPT ![p] = SearchResult(Some(cat), IndexAfterFetch(fuse, cat), arg[p])]
    /\ pc' = [pc EXCEPT ![p] = "done"]
    /\ tok' = [tok EXCEPT ![p] = 0]
    /\ via' = [via EXCEPT ![p] = "none"]
    /\ UNCHANGED <<now, authVars, schemaCache, op, arg, countVars, fnVars>>

\* fetchEntityList catches a non-2xx status, a network error or a malformed
\* body and returns []
CatalogFetchFail(p) ==
    /\ pc[p] = "fetchList"
    /\ entityCache' = Some(<<>>)
    /\ fuse' = IndexAfterFetch(fuse, <<>>)
    /\ result' = [result EXCEPT ![p] = SearchResult(Some(<<>>), IndexAfterFetch(fuse, <<>>), arg[p])]
    /\ pc' = [pc EXCEPT ![p] = "done"]
    /\ tok' = [tok EXCEPT ![p] = 0]
    /\ via' = [via EXCEPT ![p] = "none"]
    /\ UNCHANGED <<now, authVars, schemaCache, op, arg, countVars, fnVars>>

\* fetchAndParseMetadata returns the parsed schema map; getEntitySchema
\* stores it and looks the name up
MetadataFetchOk(p, md) ==
    /\ pc[p] = "fetchMeta"
    /\ schemaCache' = SomeSet(md)
    /\ result' = [result EXCEPT ![p] = SchemaResult(md, arg[p])]
    /\ pc' = [pc EXCEPT ![p] = "done"]
    /\ tok' = [tok EXCEPT ![p] = 0]
    /\ via' = [via EXCEPT ![p] = "none"]
    /\ UNCHANGED <<now, authVars, entityCache, fuse, op, arg, countVars, fnVars>>

\* fetchAndParseMetadata catches a download or parse failure and returns {}
MetadataFetchFail(p) ==
    /\ pc[p] = "fetchMeta"
    /\ schemaCache' = SomeSet({})
    /\ result' = [result EXCEPT ![p] = SchemaResult({}, arg[p])]
    /\ pc' = [pc EXCEPT ![p] = "done"]
    /\ tok' = [tok EXCEPT ![p] = 0]
    /\ via' = [via EXCEPT ![p] = "none"]
    /\ UNCHANGED <<now, authVars, entityCache, fuse, op, arg, countVars, fnVars>>

\* the service answers makeApiCall's request, or the request throws
ApiResponse(p, ok) ==
    /\ pc[p] = "apiFetch"
    /\ result' = [result EXCEPT ![p] = IF ok THEN ApiOk ELSE ApiError]
    /\ pc' = [pc EXCEPT ![p] = "done"]
    /\ tok' = [tok EXCEPT ![p] = 0]
    /\ via' = [via EXCEPT ![p] = "none"]
    /\ UNCHANGED <<now, authVars, cacheVars, op, arg, countVars, fnVars>>

Next ==
    \/ Tick
    \/ \E p \in Procs, q \in Queries : CallFindBestMatch(p, q)
    \/ \E p \in Procs, n \in SetNames : CallGetEntitySchema(p, n)
    \/ \E p \in Procs : CallMakeApiCall(p)
    \/ \E m \in Managers, lifetime \in Lifetimes : TokenExchangeOk(m, lifetime)
    \/ \E m \in Managers : TokenExchangeFail(m)
    \/ \E p \in Procs, cat \in Catalogs : CatalogFetchOk(p, cat)
    \/ \E p \in Procs : CatalogFetchFail(p)
    \/ \E p \in Procs, md \in Metadatas : MetadataFetchOk(p, md)
    \/ \E p \in Procs : MetadataFetchFail(p)
    \/ \E p \in Procs, ok \in BOOLEAN : ApiResponse(p, ok)

Spec == Init /\ [][Next]_vars

\* the credential cache alone: makeApiCall calls on the AuthManager of api.ts
NextAuth ==
    \/ Tick
    \/ \E p \in Procs : CallMakeApiCall(p)
    \/ \E lifetime \in Lifetimes : TokenExchangeOk("api", lifetime)
    \/ TokenExchangeFail("api")
    \/ \E p \in Procs, ok \in BOOLEAN : ApiResponse(p, ok)

SpecAuth == Init /\ [][NextAuth]_vars

\* the entity catalog alone: findBestMatch calls on the EntityManager, with
\* the clock standing still (a lifetime below the margin is never fresh)
NextCatalog ==
    \/ \E p \in Procs, q \in Queries : CallFindBestMatch(p, q)
    \/ \E lifetime \in Lifetimes : TokenExchangeOk("entity", lifetime)
    \/ TokenExchangeFail("entity")
    \/ \E p \in Procs, cat \in Catalogs : CatalogFetchOk(p, cat)
    \/ \E p \in Procs : CatalogFetchFail(p)

SpecCatalog == Init /\ [][NextCatalog]_vars

\* the EntityManager alone: findBestMatch and getEntitySchema calls, with
\* the clock standing still
NextEntity ==
    \/ NextCatalog
    \/ \E p \in Procs, n \in SetNames : CallGetEntitySchema(p, n)
    \/ \E p \in Procs, md \in Metadatas : MetadataFetchOk(p, md)
    \/ \E p \in Procs : MetadataFetchFail(p)

SpecEntity == Init /\ [][NextEntity]_vars

\* the token endpoint answers the exchange of the EntityManager
ExchangeCompletes ==
    \/ \E lifetime \in Lifetimes : TokenExchangeOk("entity", lifetime)
    \/ TokenExchangeFail("entity")

\* the service answers the catalog or metadata request of the call in slot p
FetchCompletes(p) ==
    \/ \E cat \in Catalogs : CatalogFetchOk(p, cat)
    \/ CatalogFetchFail(p)
    \/ \E md \in Metadatas : MetadataFetchOk(p, md)
    \/ MetadataFetchFail(p)

\* no token exchange and no fetch hangs: each one completes, with success or
\* with failure
NothingHangs ==
    /\ WF_vars(ExchangeCompletes)
    /\ \A p \in Procs : WF_vars(FetchCompletes(p))

SpecEntityLive == Init /\ [][NextEntity]_vars /\ NothingHangs

\* findBestMatch and getEntitySchema as functions of the response they get:
\* one call on a fresh EntityManager
LookupInputs ==
    [fn : {"findBestMatch"}, resp : Responses(ServiceDocuments), name : NameQueries]
    \cup [fn : {"getEntitySchema"}, resp : Responses(MetadataDocuments), name : LookupNames]

InitLookup ==
    /\ ServerInit
    /\ input \in LookupInputs
    /\ output = NoOutput
    /\ applied = FALSE
    /\ SeqIdle

serverVars == <<now, authVars, cacheVars, procVars, countVars>>

ApplyFindBestMatch ==
    /\ ~applied
    /\ input.fn = "findBestMatch"
    /\ output' = FindBestMatch(input.resp, input.name)
    /\ applied' = TRUE
    /\ UNCHANGED <<input, serverVars, seqVars>>

ApplyGetEntitySchema ==
    /\ ~applied
    /\ input.fn = "getEntitySchema"
    /\ output' = GetEntitySchema(input.resp, input.name)
    /\ applied' = TRUE
    /\ UNCHANGED <<input, serverVars, seqVars>>

NextLookup ==
    \/ ApplyFindBestMatch
    \/ ApplyGetEntitySchema

SpecLookup == InitLookup /\ [][NextLookup]_vars

\* buildSmartFilterString as a function of its arguments
FilterInputs ==
    [fn : {"buildSmartFilterString"},
     filterObject : {Null} \cup {Some(f) : f \in FilterObjects},
     schema : {Null} \cup {Some(sc) : sc \in FilterSchemas}]

InitFilter ==
    /\ ServerInit
    /\ input \in FilterInputs
    /\ output = NoOutput
    /\ applied = FALSE
    /\ SeqIdle

ApplyBuildSmartFilterString ==
    /\ ~applied
    /\ input.fn = "buildSmartFilterString"
    /\ output' = BuildSmartFilterString(input.filterObject, input.schema)
    /\ applied' = TRUE
    /\ UNCHANGED <<input, serverVars, seqVars>>

NextFilter == ApplyBuildSmartFilterString

SpecFilter == InitFilter /\ [][NextFilter]_vars

\* ------------------------------------------------------------ makeApiCall
\* what a handler does that others can observe
Call(f, args) == [kind |-> "call", name |-> f, data |-> args]
Notification(level, delivered) == [kind |-> "notify", name |-> level, data |-> delivered]
TokenRequest(ok) == [kind |-> "token", name |-> "getAuthToken", data |-> ok]
HttpRequest(args) == [kind |-> "http", name |-> "fetch", data |-> args]
Return(f, r) == [kind |-> "return", name |-> f, data |-> r]

Count(kind, name) == Cardinality({i \in 1..Len(effects) : effects[i].kind = kind /\ effects[i].name = name})
IndexOfLastIn(done, kind, name) ==
    CHOOSE i \in 1..Len(done) :
        /\ done[i].kind = kind /\ done[i].name = name
        /\ \A j \in (i + 1)..Len(done) : ~(done[j].kind = kind /\ done[j].name = name)
IndexOfLast(kind, name) == IndexOfLastIn(effects, kind, name)

\* method, url and body of the makeApiCall call under way
ApiArgs(run) == run.effects[IndexOfLastIn(run.effects, "call", "makeApiCall")].data

Methods == {"GET", "POST", "PATCH"}
\* response.status: 204, another 2xx, a non-2xx
Statuses == {204, 200, 404}
ResponseOk(status) == status >= 200 /\ status <= 299

\* the Content-Type header of a response (null when absent), and whether
\* its text is JSON
ContentTypes == {"application/json", "text/plain", "application/xml", "null"}
Bodies == {"json", "notJson"}

\* line 64: the text is returned as it is, without JSON.parse
ReturnedAsText(contentType) == contentType \in {"text/plain", "application/xml"}

ParseErrorEscapes_Uncaught(body) == body = "notJson"

\* line 68-73 and 53-60: a SyntaxError of JSON.parse is caught next to the
\* call and the text is returned instead
ParseErrorEscapes(body) == FALSE

SafeNotifyThrows_Propagates(delivered) == ~delivered

\* safeNotify: an error of sendNotification is caught and dropped
SafeNotifyThrows(delivered) == FALSE

ToolResult_Rewrapped(r) == ApiOk

\* return makeApiCall(...): the handler resolves to the value of the call
ToolResult(r) == r

\* makeApiCall returns r to its caller
ApiFinish(run, r, done) ==
    [run EXCEPT !.effects = done \o <<Return("makeApiCall", r)>>,
                !.output = IF input.fn = "makeApiCall" THEN r ELSE ToolResult(r),
                !.step = "done"]

\* an error thrown inside the try block is caught on line 75
Caught(run, what) == [run EXCEPT !.step = "api.catch", !.local.error = what]

\* the handler and its twin take the same step
Advance(main, other) ==
    /\ step' = main.step
    /\ local' = main.local
    /\ effects' = main.effects
    /\ output' = main.output
    /\ twin' = other
    /\ UNCHANGED <<input, applied, serverVars>>

\* line 23-26: the info notification, up to the await of the token
AfterAnnounce(run, delivered) ==
    LET told == [run EXCEPT !.effects = Append(@, Notification("info", delivered))]
    IN  IF SafeNotifyThrows(delivered)
        THEN Caught(told, "notify")
        ELSE [told EXCEPT !.step = "api.token"]

ApiAnnounce ==
    /\ step = "api.start"
    /\ \E delivered \in BOOLEAN, delivered2 \in BOOLEAN :
         Advance(AfterAnnounce(Run, delivered), AfterAnnounce(twin, delivered2))

RequestsAfterToken_Regardless(ok, args) == <<HttpRequest(args)>>

\* line 30: fetch is called once, after the await of the token has returned
RequestsAfterToken(ok, args) == IF ok THEN <<HttpRequest(args)>> ELSE <<>>

\* line 28-38: getAuthToken settles; with a token the request is issued
AfterToken(run, ok) ==
    LET asked == [run EXCEPT !.effects = @ \o <<TokenRequest(ok)>> \o RequestsAfterToken(ok, ApiArgs(run))]
    IN  IF ok
        THEN [asked EXCEPT !.step = "api.fetch"]
        ELSE Caught(asked, "token")

ApiToken ==
    /\ step = "api.token"
    /\ \E ok \in BOOLEAN : Advance(AfterToken(Run, ok), AfterToken(twin, ok))

\* line 30-42: fetch settles: a network error, or a response; 204 returns
AfterFetch(run, status) ==
    LET got == [run EXCEPT !.local.status = status]
    IN  IF status = 204
        THEN ApiFinish(got, ApiOk, got.effects)
        ELSE [got EXCEPT !.step = "api.read"]

ApiFetch ==
    /\ step = "api.fetch"
    /\ \/ Advance(Caught(Run, "request"), Caught(twin, "request"))
       \/ \E status \in Statuses : Advance(AfterFetch(Run, status), AfterFetch(twin, status))

\* line 44-73: response.text() settles; a non-2xx status is notified and
\* returned as an error, any other body is returned as content
AfterRead(run, contentType, body, delivered) ==
    IF ResponseOk(run.local.status)
    THEN LET read == [run EXCEPT !.local.contentType = contentType, !.local.body = body]
         IN  IF ~ReturnedAsText(contentType) /\ ParseErrorEscapes(body)
             THEN Caught(read, "parse")
             ELSE ApiFinish(read, ApiOk, read.effects)
    ELSE LET told == [run EXCEPT !.local.body = body,
                                 !.effects = Append(@, Notification("error", delivered))]
         IN  IF SafeNotifyThrows(delivered)
             THEN Caught(told, "notify")
             ELSE ApiFinish(told, ApiError, told.effects)

ApiRead ==
    /\ step = "api.read"
    /\ \/ Advance(Caught(Run, "read"), Caught(twin, "read"))
       \/ \E contentType \in ContentTypes, body \in Bodies,
             delivered \in BOOLEAN, delivered2 \in BOOLEAN :
            Advance(AfterRead(Run, contentType, body, delivered),
                    AfterRead(twin, contentType, body, delivered2))

\* line 75-83: the catch block: an error notification, then an error result
AfterCatch(run, delivered) ==
    LET told == [run EXCEPT !.effects = Append(@, Notification("error", delivered))]
    IN  IF SafeNotifyThrows(delivered)
        THEN [told EXCEPT !.output = Thrown, !.step = "done"]
        ELSE ApiFinish(told, ApiError, told.effects)

ApiCatch ==
    /\ step = "api.catch"
    /\ \E delivered \in BOOLEAN, delivered2 \in BOOLEAN :
         Advance(AfterCatch(Run, delivered), AfterCatch(twin, delivered2))

NextApi ==
    \/ ApiAnnounce
    \/ ApiToken
    \/ ApiFetch
    \/ ApiRead
    \/ ApiCatch

\* makeApiCall(method, url, body, sendNotification) called on its own
ApiUrls == {"/data/CustomersV3", "/data/$metadata"}
ApiBodies == {Null, Some(<<"customerData">>)}
ApiInputs == [fn : {"makeApiCall"}, method : Methods, url : ApiUrls, body : ApiBodies]

InitApi ==
    /\ ServerInit
    /\ input \in ApiInputs
    /\ output = NoOutput
    /\ applied = FALSE
    /\ step = "api.start"
    /\ local = NoLocal
    /\ effects = <<Call("makeApiCall", <<input.method, input.url, input.body>>)>>
    /\ twin = Run

SpecApi == InitApi /\ [][NextApi]_vars

\* ------------------------------------------------------------ tool handlers
DEFAULT_PAGE_SIZE == 5

kDataAreaId == <<"d", "a", "t", "a", "A", "r", "e", "a", "I", "d">>

\* Number.prototype.toString for a natural number
DigitChar(d) == CASE d = 0 -> "0" [] d = 1 -> "1" [] d = 2 -> "2" [] d = 3 -> "3"
                  [] d = 4 -> "4" [] d = 5 -> "5" [] d = 6 -> "6" [] d = 7 -> "7"
                  [] d = 8 -> "8" [] OTHER -> "9"
RECURSIVE NumberToString(_)
NumberToString(n) == IF n < 10 THEN <<DigitChar(n)>> ELSE NumberToString(n \div 10) \o <<DigitChar(n % 10)>>

PlanOnly_DefaultFalse(p) == p = "true"

\* z.boolean().optional().default(true), then if (planOnly)
PlanOnly(p) == p # "false"

UrlEntity_AsTyped(corrected, entity) == entity

\* new URL(`${process.env.DYNAMICS_RESOURCE_URL}/data/${correctedEntity}`)
UrlEntity(corrected, entity) == corrected

\* the filter has a non-empty dataAreaId
FiltersOnCompany(q) ==
    /\ ~q.filter.null
    /\ \E i \in 1..Len(q.filter.val) : q.filter.val[i][1] = kDataAreaId /\ q.filter.val[i][2] # ""

CrossCompany_OverridesFalse(q) == FiltersOnCompany(q) \/ q.crossCompany = "true"

\* effectiveArgs.crossCompany after the dataAreaId rule
CrossCompany(q) ==
    IF /\ FiltersOnCompany(q)
       /\ q.crossCompany # "false"
    THEN TRUE
    ELSE q.crossCompany = "true"

Param(name, value) == <<[name |-> name, value |-> value]>>
Optional(cond, params) == IF cond THEN params ELSE <<>>

\* the URL and its searchParams, in the order they are appended
BuildUrl(corrected, q, schema) ==
    LET filterString == BuildSmartFilterString(q.filter, schema).ret
        topValue == IF ~q.top.null /\ q.top.val # 0 THEN q.top.val ELSE DEFAULT_PAGE_SIZE
    IN  [entity |-> UrlEntity(corrected, q.entity),
         params |-> Param("$top", NumberToString(topValue))
                    \o Optional(~q.skip.null /\ q.skip.val # 0,
                                Param("$skip", IF q.skip.null THEN <<>> ELSE NumberToString(q.skip.val)))
                    \o Optional(CrossCompany(q), Param("cross-company", <<"true">>))
                    \o Optional(~q.select.null /\ q.select.val # <<>>, Param("$select", q.select.val))
                    \o Optional(~filterString.null /\ filterString.val # <<>>, Param("$filter", filterString.val))
                    \o Optional(~q.expand.null /\ q.expand.val # <<>>, Param("$expand", q.expand.val))]

\* URLSearchParams serialisation of one piece of a name or a value
FormEncode(piece) ==
    CASE piece = "$top" -> "%24top" [] piece = "$skip" -> "%24skip"
      [] piece = "$select" -> "%24select" [] piece = "$filter" -> "%24filter"
      [] piece = "$expand" -> "%24expand"
      [] piece = " eq " -> "+eq+" [] piece = " and " -> "+and+" [] piece = "'" -> "%27"
      [] OTHER -> piece
FormEncodeAll(str) == [i \in 1..Len(str) |-> FormEncode(str[i])]

\* url.toString()
UrlToString(url) ==
    <<"DYNAMICS_RESOURCE_URL", "/data/">> \o url.entity \o <<"?">>
        \o Join([i \in 1..Len(url.params) |->
                    <<FormEncode(url.params[i].name), "=">> \o FormEncodeAll(url.params[i].value)], "&")

PlanUrl_BeforeFilter(url) ==
    UrlToString([url EXCEPT !.params = SelectSeq(@, LAMBDA prm : prm.name # "$filter")])

\* the URL shown in the plan: url.toString() once every parameter is appended
PlanUrl(url) == UrlToString(url)

\* planOutput: the full URL and one row of the filter analysis per filter
PlanOutput(url, q, schema) ==
    [url |-> PlanUrl(url),
     analysis |-> IF q.filter.null \/ schema.null THEN <<>>
                  ELSE LET entries == ObjectEntries(q.filter.val) IN
                       [i \in 1..Len(entries) |->
                           LET f == FindField(schema.val, entries[i][1]) IN
                           [value |-> entries[i][2],
                            field |-> IF f = 0 THEN entries[i][1] ELSE schema.val.fields[f].name,
                            type |-> IF f = 0 THEN <<"Unknown">> ELSE schema.val.fields[f].type]]]

ErrorResult(about, name) == [kind |-> "isError", val |-> <<about, name>>]
PlanResult(plan) == [kind |-> "plan", val |-> plan]

Unresolved_Never(r) == FALSE

\* if (!correctedEntity)
Unresolved(r) == r = NotFound

FailsWithoutSchema_Never(version) == FALSE

\* the planOnly version returns an error when no schema is found; the
\* earlier version goes on without one
FailsWithoutSchema(version) == version = 2

\* odataQuery: findBestMatch(args.entity) has returned
AfterResolve(run, resp) ==
    LET r == FindBestMatch(resp, input.entity)
        called == [run EXCEPT !.effects = @ \o <<Call("findBestMatch", input.entity),
                                                  Return("findBestMatch", r)>>]
    IN  IF Unresolved(r)
        THEN [called EXCEPT !.output = ErrorResult("Could not find a matching entity for", input.entity),
                            !.step = "done"]
        ELSE [called EXCEPT !.local.corrected = Some(r.val), !.step = "q.schema"]

QueryResolve ==
    /\ step = "q.start"
    /\ \E resp \in Responses({Catalog1}) : Advance(AfterResolve(Run, resp), AfterResolve(twin, resp))

ToolDocuments ==
    {[types |-> {nC, nVs}, sets |-> {<<nCs, nC>>, <<nVs, nVs>>}],
     [types |-> {nD}, sets |-> {}]}

\* odataQuery: getEntitySchema(correctedEntity) has returned; the URL and
\* the plan are built, and the planOnly version returns the plan
AfterSchema(run, resp) ==
    LET corrected == run.local.corrected.val
        r == GetEntitySchema(resp, corrected)
        schema == IF r = NotFound THEN Null
                  ELSE Some(CHOOSE sc \in FetchAndParseMetadata(resp).val : sc.name = r.val)
        url == BuildUrl(corrected, input, schema)
        called == [run EXCEPT !.effects = @ \o <<Call("getEntitySchema", corrected),
                                                  Return("getEntitySchema", r)>>]
    IN  IF schema.null /\ FailsWithoutSchema(input.version)
        THEN [called EXCEPT !.output = ErrorResult("Could not find a schema for entity", corrected),
                            !.step = "done"]
        ELSE LET built == [called EXCEPT !.local.schema = schema, !.local.url = Some(url),
                                         !.local.plan = IF input.version = 2
                                                        THEN Some(PlanOutput(url, input, schema))
                                                        ELSE Null]
             IN  IF input.version = 2 /\ PlanOnly(input.planOnly)
                 THEN [built EXCEPT !.output = PlanResult(PlanOutput(url, input, schema)),
                                    !.step = "done"]
                 ELSE [built EXCEPT !.step = "q.execute"]

QuerySchema ==
    /\ step = "q.schema"
    /\ \E resp \in Responses(ToolDocuments) : Advance(AfterSchema(Run, resp), AfterSchema(twin, resp))

SafeNotificationThrows_Propagates(delivered) == ~delivered

\* safeNotification: an error of context.sendNotification is caught and logged
SafeNotificationThrows(delivered) == FALSE

\* the notifications a version sends before it calls makeApiCall
Announcements(run, delivered) ==
    IF input.version = 2
    THEN <<Notification("info", delivered[1])>>
    ELSE <<Notification(IF run.local.schema.null THEN "warn" ELSE "info", delivered[1])>>
         \o Optional(FiltersOnCompany(input) /\ input.crossCompany = "absent",
                     <<Notification("info", delivered[2])>>)
         \o <<Notification("info", delivered[3])>>

\* odataQuery: the notifications are sent and makeApiCall is called
AfterExecute(run, delivered) ==
    LET sent == Announcements(run, delivered)
        thrown == {i \in 1..Len(sent) : SafeNotificationThrows(sent[i].data)}
    IN  IF thrown # {}
        THEN LET first == CHOOSE i \in thrown : \A j \in thrown : i <= j
             IN  [run EXCEPT !.effects = @ \o SubSeq(sent, 1, first),
                             !.output = Thrown, !.step = "done"]
        ELSE [run EXCEPT !.effects = @ \o sent
                             \o <<Call("makeApiCall", <<"GET", UrlToString(run.local.url.val), Null>>)>>,
                         !.step = "api.start"]

QueryExecute ==
    /\ step = "q.execute"
    /\ \E delivered \in [1..3 -> BOOLEAN], delivered2 \in [1..3 -> BOOLEAN] :
         Advance(AfterExecute(Run, delivered), AfterExecute(twin, delivered2))

\* the tools that pass their arguments straight to makeApiCall
OtherTools == {"getODataMetadata", "getEntityCount", "createCustomer", "updateCustomer",
               "createSystemUser", "assignUserRole", "updatePositionHierarchy",
               "action_initializeDataManagement"}
RegisteredTools == {"odataQuery"} \cup OtherTools

ToolMethod(t) ==
    CASE t \in {"getODataMetadata", "getEntityCount"} -> "GET"
      [] t \in {"updateCustomer", "updatePositionHierarchy"} -> "PATCH"
      [] OTHER -> "POST"

ToolUrl(t) ==
    CASE t = "getODataMetadata" -> "/data/$metadata"
      [] t = "getEntityCount" -> "/data/${entity}/$count"
      [] t \in {"createCustomer", "updateCustomer"} -> "/data/CustomersV3"
      [] t = "createSystemUser" -> "/data/SystemUsers"
      [] t = "assignUserRole" -> "/data/SecurityUserRoleAssociations"
      [] t = "updatePositionHierarchy" -> "/data/PositionHierarchies"
      [] OTHER -> "/data/DataManagementDefinitionGroups/Microsoft.Dynamics.DataEntities.InitializeDataManagement"

ToolBody(t) ==
    CASE t \in {"getODataMetadata", "getEntityCount"} -> Null
      [] t = "action_initializeDataManagement" -> Some(<<>>)
      [] OTHER -> Some(<<"data">>)

\* a tool other than odataQuery: makeApiCall is called at once
AfterInvoke(run) ==
    [run EXCEPT !.effects = Append(@, Call("makeApiCall", <<ToolMethod(input.fn), ToolUrl(input.fn), ToolBody(input.fn)>>)),
                !.step = "api.start"]

InvokeTool ==
    /\ step = "tool.start"
    /\ Advance(AfterInvoke(Run), AfterInvoke(twin))

\* tools/list: the names registered by getServer
AfterList(run) == [run EXCEPT !.output = [kind |-> "tools", val |-> RegisteredTools], !.step = "done"]

ListTools ==
    /\ step = "list.start"
    /\ Advance(AfterList(Run), AfterList(twin))

ToolFilters ==
    {Null, Some(<<>>),
     Some(<< <<<<"i", "d">>, "usmf">> >>),
     Some(<< <<<<"x">>, "Yes">> >>),
     Some(<< <<<<"x">>, "Yes">>, <<<<"i", "d">>, "usmf">> >>)}

QueryInputs ==
    [fn : {"odataQuery"}, version : {1, 2}, entity : {qc, qz}, filter : ToolFilters,
     planOnly : {"absent", "true", "false"}, top : {Null, Some(10)}, skip : {Null},
     crossCompany : {"absent"}, select : {Null}, expand : {Null}]

ToolInputs == QueryInputs \cup [fn : OtherTools \cup {"listTools"}]

InitTools ==
    /\ ServerInit
    /\ input \in ToolInputs
    /\ output = NoOutput
    /\ applied = FALSE
    /\ step = CASE input.fn = "odataQuery" -> "q.start"
                [] input.fn = "listTools" -> "list.start"
                [] OTHER -> "tool.start"
    /\ local = NoLocal
    /\ effects = <<>>
    /\ twin = Run

NextTools ==
    \/ QueryResolve
    \/ QuerySchema
    \/ QueryExecute
    \/ InvokeTool
    \/ ListTools
    \/ NextApi

SpecTools == InitTools /\ [][NextTools]_vars

\* the odataQuery handler up to its call of makeApiCall, over the arguments
\* that shape the URL
UrlFilters ==
    {Null, Some(<<>>),
     Some(<< <<<<"i", "d">>, "usmf">> >>),
     Some(<< <<kDataAreaId, "usmf">> >>),
     Some(<< <<kDataAreaId, "">> >>),
     Some(<< <<<<"i", "d">>, "usmf">>, <<kDataAreaId, "usmf">> >>)}

UrlInputs ==
    [fn : {"odataQuery"}, version : {1, 2}, entity : {qc}, filter : UrlFilters,
     planOnly : {"absent", "true", "false"}, top : {Null, Some(0), Some(10)},
     skip : {Null, Some(0), Some(20)}, crossCompany : {"absent", "true", "false"},
     select : {Null}, expand : {Null}]

InitQuery ==
    /\ ServerInit
    /\ input \in UrlInputs
    /\ output = NoOutput
    /\ applied = FALSE
    /\ step = "q.start"
    /\ local = NoLocal
    /\ effects = <<>>
    /\ twin = Run

NextQuery ==
    \/ QueryResolve
    \/ QuerySchema
    \/ QueryExecute

SpecQuery == InitQuery /\ [][NextQuery]_vars

\* ---------------------------------------------------------------- claims
\* this step begins a call of operation o in slot p
Starts(p, o) == calls' = calls + 1 /\ last' = p /\ op'[p] = o

\* this step begins a call in slot p that calls getAuthToken() on manager m
CallsGetToken(p, m) ==
    /\ \E o \in {"findBestMatch", "getEntitySchema", "makeApiCall"} : Starts(p, o) /\ ManagerOf(o) = m
    /\ pc'[p] # "done"

\* this step is the failure of manager m's token exchange
ExchangeFails(m) == pending[m] /\ ~pending'[m] /\ issued' = issued

\* C1: while a token exchange of a manager is outstanding no further token
\* request is sent, and every caller awaiting a token is served by that one
\* outstanding exchange
C1_SingleFlightToken ==
    [][\A m \in Managers :
        /\ pending[m] => tokenRequests'[m] = tokenRequests[m]
        /\ tokenRequests'[m] <= tokenRequests[m] + 1
        /\ Waiters(m)' # {} => pending'[m]]_vars

\* C1 witness: two calls await the same manager's token and one exchange was sent
C1_Witness == \E m \in Managers : Cardinality(Waiters(m)) >= 2 /\ tokenRequests[m] = 1

\* C2: the entity catalog endpoint is requested at most once, and at most one
\* catalog fetch is in flight at any time
C2_CatalogFetchedOnce ==
    /\ catalogRequests <= 1
    /\ Cardinality({p \in Procs : pc[p] = "fetchList"}) <= 1

\* C3: the metadata document is requested at most once however many
\* getEntitySchema calls are issued before the first fetch completes
C3_MetadataFetchedOnce ==
    /\ metadataRequests <= 1
    /\ Cardinality({p \in Procs : pc[p] = "fetchMeta"}) <= 1

\* the cache holds the empty catalog that a failed fetch stored
CatalogEmpty == ~entityCache.null /\ Len(entityCache.val) = 0

\* the cache holds the empty schema map that a failed fetch stored
RegistryEmpty == ~schemaCache.null /\ schemaCache.val = {}

\* C4 as claimed: a findBestMatch call that begins after a failed catalog
\* fetch does not answer from the empty catalog, it goes on to fetch again
C4_RetriesAfterFailure ==
    [][\A p \in Procs : Starts(p, "findBestMatch") /\ CatalogEmpty => pc'[p] # "done"]_vars

\* C4 amended: the call whose catalog fetch failed returns not-found, and a
\* findBestMatch call that begins while the cache holds the empty catalog
\* returns not-found at once without a catalog request
C4_FailureIsCached ==
    [][\A p \in Procs :
        /\ pc[p] = "fetchList" /\ pc'[p] = "done" /\ CatalogEmpty' => result'[p] = NotFound
        /\ Starts(p, "findBestMatch") /\ CatalogEmpty =>
              /\ pc'[p] = "done"
              /\ result'[p] = NotFound
              /\ catalogRequests' = catalogRequests
              /\ entityCache' = entityCache]_vars

\* C4 witness: one catalog request was sent and failed, and two findBestMatch
\* calls have returned not-found, so one of them was answered from the empty cache
C4_Witness ==
    /\ CatalogEmpty
    /\ catalogRequests = 1
    /\ \E p, r \in Procs :
        /\ p # r
        /\ op[p] = "findBestMatch" /\ pc[p] = "done" /\ result[p] = NotFound
        /\ op[r] = "findBestMatch" /\ pc[r] = "done" /\ result[r] = NotFound

\* C5: a getEntitySchema call that begins after a failed metadata fetch does
\* not answer from the empty registry, it goes on to fetch again
C5_RetriesAfterFailure ==
    [][\A p \in Procs : Starts(p, "getEntitySchema") /\ RegistryEmpty => pc'[p] # "done"]_vars

\* C6: a failed token exchange leaves the cached credential and its expiry
\* as they were, and while that credential is unexpired every getToken()
\* served by the failed exchange returns it
C6_FailureKeepsCredential ==
    [][\A m \in Managers : ExchangeFails(m) =>
        /\ token'[m] = token[m]
        /\ expiresAt'[m] = expiresAt[m]
        /\ (token[m] # 0 /\ expiresAt[m] > now) =>
              \A p \in Waiters(m) : tok'[p] = token[m] /\ pc'[p] = FetchOf(op[p])]_vars

\* C6 witness: a call goes on with the previous credential after a failed refresh
C6_Witness ==
    \E p \in Procs : via[p] = "fallback" /\ tok[p] # 0 /\ tok[p] = token[ManagerOf(op[p])]

\* C7: with no credential cached a failed exchange fails every awaiting
\* getToken() with the credential error and is not memoized: the next
\* getToken() call sends a token request of its own
C7_FailurePropagatesAndRetries ==
    [][\A m \in Managers :
        /\ ExchangeFails(m) /\ token[m] = 0 =>
              \A p \in Waiters(m) :
                  /\ pc'[p] = "done"
                  /\ via'[p] = "error"
                  /\ result'[p] = IF op[p] = "makeApiCall" THEN ApiError ELSE Rejected
        /\ \A p \in Procs : CallsGetToken(p, m) /\ token[m] = 0 /\ ~pending[m] =>
              tokenRequests'[m] = tokenRequests[m] + 1 /\ pending'[m]]_vars

\* C7 witness: a call failed for want of a credential and a later call has
\* sent the manager's second token request
C7_Witness ==
    \E m \in Managers :
        /\ token[m] = 0 /\ tokenRequests[m] >= 2 /\ pending[m]
        /\ \E p \in Procs : via[p] = "error" /\ ManagerOf(op[p]) = m

\* the cached credential of m has at least the refresh margin left
C8_WithinLifetime(m) == token[m] # 0 /\ expiresAt[m] - now >= RefreshMargin

\* C8: getToken() returns the cached credential without a token request when
\* it has at least the refresh margin left, is served by a token exchange
\* otherwise, and never hands out a credential that has expired
C8_RefreshExactlyWhenDue ==
    [][\A m \in Managers : \A p \in Procs :
        /\ CallsGetToken(p, m) /\ C8_WithinLifetime(m) =>
              /\ tok'[p] = token[m]
              /\ tokenRequests' = tokenRequests
              /\ pending' = pending
        /\ CallsGetToken(p, m) /\ ~C8_WithinLifetime(m) =>
              /\ pc'[p] = "awaitToken"
              /\ pending'[m]
              /\ tokenRequests'[m] = tokenRequests[m] + (IF pending[m] THEN 0 ELSE 1)
        /\ (ManagerOf(op'[p]) = m /\ tok[p] = 0 /\ tok'[p] # 0) =>
              tok'[p] = token'[m] /\ expiresAt'[m] > now']_vars

\* C8 witness: one call is served from the cache while the credential is
\* within its lifetime, after exactly one exchange
C8_Witness ==
    \E p \in Procs :
        /\ via[p] = "cached" /\ tok[p] # 0
        /\ tokenRequests[ManagerOf(op[p])] = 1
        /\ now > 0

\* the call in slot p ends with the error of the token exchange
EndsRejected(p) == pc[p] = "awaitToken" /\ pc'[p] = "done"

\* the call in slot p has gone on to populate the cache
Populating(p) == pc[p] \in {"awaitToken", "fetchList", "fetchMeta"}

\* C33: when the token exchange needed by a catalog or metadata population
\* fails, the findBestMatch or getEntitySchema call is rejected with the
\* credential error and leaves the caches as they were, and a call that
\* begins while its cache is still unpopulated attempts the population again
C33_TokenFailurePropagates ==
    [][\A p \in Procs :
        /\ (EndsRejected(p) /\ op[p] \in {"findBestMatch", "getEntitySchema"}) =>
              /\ result'[p] = Rejected
              /\ entityCache' = entityCache
              /\ fuse' = fuse
              /\ schemaCache' = schemaCache
        /\ (Starts(p, "findBestMatch") /\ entityCache.null) => Populating(p)'
        /\ (Starts(p, "getEntitySchema") /\ schemaCache.null) => Populating(p)']_vars

\* C33 witness: a findBestMatch call was rejected, the catalog is still
\* unpopulated, and the call that began after it is fetching the catalog
C33_Witness ==
    \E p, r \in Procs :
        /\ p # r
        /\ op[p] = "findBestMatch" /\ pc[p] = "done" /\ result[p] = Rejected
        /\ entityCache.null
        /\ op[r] = "findBestMatch" /\ pc[r] = "fetchList" /\ last = r
        /\ catalogRequests = 1

\* the call of operation o in slot p returns in this step
Returns(p, o) ==
    /\ op'[p] = o
    /\ pc'[p] = "done"
    /\ pc[p] \notin {"idle", "done"} \/ Starts(p, o)

\* the canonical names of the cached catalog
CanonicalNames(cache) == IF cache.null THEN {} ELSE {cache.val[i].url : i \in 1..Len(cache.val)}
LogicalNames(cache) == IF cache.null THEN {} ELSE {cache.val[i].name : i \in 1..Len(cache.val)}

\* C34: every non-null value findBestMatch returns is the canonical name
\* (url) of an entry of the catalog cached when it returns: the raw query or
\* a logical name only when that is also a canonical name; and it returns
\* null whenever that catalog is empty
C34_ReturnsCanonicalName ==
    [][\A p \in Procs : Returns(p, "findBestMatch") =>
        /\ result'[p].kind = "value" => result'[p].val \in CanonicalNames(entityCache')
        /\ (result'[p].kind = "value" /\ arg'[p] \notin CanonicalNames(entityCache')) =>
              result'[p].val # arg'[p]
        /\ CatalogEmpty' => result'[p] = NotFound]_vars

\* C34 witness: the query 'c', a logical name that is no canonical name, has
\* resolved to the canonical name 'Cs'
C34_Witness ==
    \E p \in Procs :
        /\ op[p] = "findBestMatch" /\ pc[p] = "done"
        /\ arg[p] = qc
        /\ qc \in LogicalNames(entityCache) \ CanonicalNames(entityCache)
        /\ result[p] = Found(nCs)

\* C9: at most one credential is cached in the process: the AuthManager of
\* makeApiCall and the AuthManager of the EntityManager hold the same one
C9_OneLiveCredential == Cardinality({token[m] : m \in Managers} \ {0}) <= 1

\* C10: a populated catalog is never replaced or emptied
C10_CatalogImmutable ==
    [][(~entityCache.null /\ Len(entityCache.val) > 0) => entityCache' = entityCache]_vars


\* the call under SpecLookup has returned
Returned(f) == applied /\ input.fn = f

\* the type the EntityContainer of the fetched document gives a set name
ResolvesTo(doc, n, t) == <<n, t>> \in doc.sets

\* C11: getEntitySchema returns a schema only for an entity set name that the
\* EntityContainer of the metadata document maps to a type, and then the
\* schema of that type; a name the container does not list gets not-found
C11_ResolvedThroughContainer ==
    (Returned("getEntitySchema") /\ output.kind = "value")
        => /\ input.resp.kind = "ok"
           /\ ResolvesTo(input.resp.body, input.name, output.val)

\* C12: for an entity set name that is no key of the parsed map, the
\* trailing-'s' fallback returns not-found or the schema of the type the
\* EntityContainer gives that set, never another type's schema
C12_FallbackNeverWrong ==
    (/\ Returned("getEntitySchema")
     /\ input.resp.kind = "ok"
     /\ input.name \notin input.resp.body.types
     /\ \E t \in TypeNames : ResolvesTo(input.resp.body, input.name, t))
        => \/ output = NotFound
           \/ output.kind = "value" /\ ResolvesTo(input.resp.body, input.name, output.val)

\* findBestMatch has returned from a catalog that was fetched and is not empty
Searched == Returned("findBestMatch") /\ input.resp.kind = "ok" /\ Len(input.resp.body) > 0

\* the records of the fetched catalog that Fuse scores against the query
Candidates == FuseHits(input.resp.body, input.name)
ScoreOf(i) == ItemScore(input.name, input.resp.body[i])

\* the candidates no other candidate beats
BestCandidates == {i \in Candidates : \A j \in Candidates : ~Lower_Score(ScoreOf(j), ScoreOf(i))}

\* a score of at most 0.6: an exact key, or a squared score of at most 0.36
AtMostThreshold(sc) == sc.exact > 0 \/ sc.rest <= 360000

\* C13: findBestMatch returns the canonical name of a best-scoring candidate
\* exactly when that candidate's score is at most the threshold, and
\* not-found when the best score exceeds it or there is no candidate
C13_ThresholdDecides ==
    Searched =>
        /\ output.kind = "value" <=> \E i \in BestCandidates : AtMostThreshold(ScoreOf(i))
        /\ output.kind = "value" => \E i \in BestCandidates : output.val = input.resp.body[i].url
        /\ output.kind # "value" => output = NotFound

C13_Witness ==
    /\ Searched
    /\ \E i \in BestCandidates : ~AtMostThreshold(ScoreOf(i))
    /\ output = NotFound

\* C14: a query equal to the canonical name of a catalog entry resolves to
\* that canonical name, whatever the other entries are
C14_SelfMatch ==
    (Searched /\ \E i \in 1..Len(input.resp.body) : input.resp.body[i].url = input.name)
        => output = Found(input.name)

\* the best-scoring candidate that comes first in catalog order
FirstBest == CHOOSE i \in BestCandidates : \A j \in BestCandidates : i <= j

\* C35: what findBestMatch returns is fixed by the catalog and the query: of
\* the candidates it returns one with the lowest score, and of several with
\* the same lowest score the one that comes first in the catalog
C35_LowestScoreThenCatalogOrder ==
    (Searched /\ output.kind = "value") =>
        /\ BestCandidates # {}
        /\ output.val = input.resp.body[FirstBest].url

\* C35 witness: two records with different canonical names tie for the
\* lowest score and the earlier one is returned
C35_Witness ==
    /\ Searched
    /\ output.kind = "value"
    /\ \E i, j \in BestCandidates :
         /\ i < j
         /\ input.resp.body[i].url # input.resp.body[j].url
         /\ output.val = input.resp.body[i].url

\* no candidate of a fetched, populated catalog clears the threshold
NoneClears == Searched /\ \A i \in Candidates : ~AtMostThreshold(ScoreOf(i))

\* C15: the outcome of findBestMatch when no candidate clears the threshold
\* differs from its outcome for the same query when the catalog fetch failed
C15_NoMatchDistinctFromFailure ==
    NoneClears => \A k \in FailureKinds : output # FindBestMatch([kind |-> k, body |-> <<>>], input.name)

\* C15 as the code has it: both outcomes are the same null
C15_NoMatchSameAsFailure ==
    NoneClears => \A k \in FailureKinds : output = FindBestMatch([kind |-> k, body |-> <<>>], input.name)

C15_Witness == NoneClears /\ Candidates # {} /\ output = NotFound

\* C16: a failed catalog or metadata download (non-2xx status, network
\* error, malformed or missing sections) makes findBestMatch and
\* getEntitySchema return null; nothing is thrown
C16_FailureIsNotFound ==
    (applied /\ input.resp.kind \in FailureKinds) => output = NotFound

C16_Witness ==
    /\ Returned("getEntitySchema")
    /\ input.resp.kind = "malformed"
    /\ output = NotFound

\* C17: buildSmartFilterString returns null exactly when the filter map is
\* absent or empty or the schema is null, and a string otherwise
C17_NullIffNothingToFilter ==
    Returned("buildSmartFilterString") =>
        (output.ret.null <=> \/ input.filterObject.null
                             \/ input.schema.null
                             \/ input.filterObject.val = <<>>)

C17_Witness ==
    /\ Returned("buildSmartFilterString")
    /\ ~input.filterObject.null /\ input.filterObject.val = <<>>
    /\ ~input.schema.null
    /\ output.ret.null

\* the filter builder has returned a string
Built == Returned("buildSmartFilterString") /\ ~output.ret.null

\* entry i of the filter object, and the first field of the schema whose
\* name equals its key when both are lower-cased (0 when there is none)
KeyAt(i) == ObjectEntries(input.filterObject.val)[i][1]
ValueAt(i) == ObjectEntries(input.filterObject.val)[i][2]
FieldsOf == input.schema.val.fields
Matching(i) == {k \in 1..Len(FieldsOf) : LowerStr(FieldsOf[k].name) = LowerStr(KeyAt(i))}
FirstMatch(i) == CHOOSE k \in Matching(i) : \A j \in Matching(i) : k <= j

\* C18: a key that matches, without regard to case, a field whose declared
\* type starts with 'Edm.' gives the clause <field> eq '<value>' with the
\* field's own name and no type prefix
C18_PrimitiveClause ==
    Built => \A i \in 1..Len(input.filterObject.val) :
        (Matching(i) # {} /\ FieldsOf[FirstMatch(i)].type[1] = "Edm")
            => output.clauses[i] = FieldsOf[FirstMatch(i)].name \o <<" eq ", "'", ValueAt(i), "'">>

C18_Witness ==
    /\ Built
    /\ \E i \in 1..Len(input.filterObject.val) :
         /\ Matching(i) # {}
         /\ FieldsOf[FirstMatch(i)].name # KeyAt(i)
         /\ FieldsOf[FirstMatch(i)].type = tString
         /\ output.clauses[i] = <<"I", "d", " eq ", "'", ValueAt(i), "'">>

\* C19: a key that matches a field of any other declared type gives the
\* clause <field> eq <type>'<value>' with the field's full declared type
C19_EnumClause ==
    Built => \A i \in 1..Len(input.filterObject.val) :
        (Matching(i) # {} /\ FieldsOf[FirstMatch(i)].type[1] # "Edm")
            => output.clauses[i] =
                   FieldsOf[FirstMatch(i)].name \o <<" eq ">>
                       \o Dotted(FieldsOf[FirstMatch(i)].type) \o <<"'", ValueAt(i), "'">>

C19_Witness ==
    /\ Built
    /\ input.filterObject.val = << <<<<"s", "t">>, "Yes">> >>
    /\ output.ret.val = <<"S", "t", " eq ", "Microsoft", ".", "Dynamics", ".", "DataEntities", ".", "NoYes", "'", "Yes", "'">>

\* the clause for a key no field matches: the key as supplied
RawClause(i) == KeyAt(i) \o <<" eq ", "'", ValueAt(i), "'">>

\* C20: a key that matches no field gives the raw clause <key> eq '<value>',
\* and the caller is sent a warning-level notification of the fallback
C20_RawClauseAndNotification ==
    Built => \A i \in 1..Len(input.filterObject.val) :
        Matching(i) = {}
            => /\ output.clauses[i] = RawClause(i)
               /\ \E n \in 1..Len(output.notifications) :
                    output.notifications[n] = [level |-> "warning", key |-> KeyAt(i)]

\* C20 as the code has it: the raw clause, a console.warn line for the key,
\* and no notification to the caller
C20_RawClauseAndConsoleWarning ==
    Built => /\ output.notifications = <<>>
             /\ \A i \in 1..Len(input.filterObject.val) :
                  Matching(i) = {}
                      => /\ output.clauses[i] = RawClause(i)
                         /\ \E n \in 1..Len(output.console) : output.console[n] = KeyAt(i)

C20_Witness ==
    /\ Built
    /\ input.filterObject.val = << <<<<"x">>, "usmf">> >>
    /\ output.ret.val = <<"x", " eq ", "'", "usmf", "'">>
    /\ output.console = << <<"x">> >>

\* property i of the filter object, in the order the properties were inserted
Inserted(i) == input.filterObject.val[i]

\* C21: the returned expression has one clause per filter key, in the
\* insertion order of the input map, joined by ' and '
C21_InsertionOrder ==
    Built => /\ Len(output.clauses) = Len(input.filterObject.val)
             /\ \A i \in 1..Len(output.clauses) :
                  output.clauses[i] = ClauseFor(input.schema.val, Inserted(i)[1], Inserted(i)[2])
             /\ output.ret.val = Join(output.clauses, " and ")

\* property i is enumerated before property j
EnumeratedBefore(i, j) ==
    LET a == Inserted(i)[1]
        b == Inserted(j)[1]
    IN  \/ IsIndexKey(a) /\ IsIndexKey(b) /\ IndexValue(a) < IndexValue(b)
        \/ IsIndexKey(a) /\ ~IsIndexKey(b)
        \/ ~IsIndexKey(a) /\ ~IsIndexKey(b) /\ i < j

\* C21 as the code has it: one clause per filter key, joined by ' and ', in
\* the enumeration order of the map: keys that are array indices first, in
\* ascending numeric order, then the other keys in insertion order
C21_EnumerationOrder ==
    Built =>
        LET n == Len(input.filterObject.val) IN
        /\ Len(output.clauses) = n
        /\ \E perm \in [1..n -> 1..n] :
             /\ \A i, j \in 1..n : i < j => EnumeratedBefore(perm[i], perm[j])
             /\ \A i \in 1..n :
                  output.clauses[i] = ClauseFor(input.schema.val, Inserted(perm[i])[1], Inserted(perm[i])[2])
        /\ output.ret.val = Join(output.clauses, " and ")

C21_Witness ==
    /\ Built
    /\ input.filterObject.val = << <<<<"x">>, "usmf">>, <<k12, "Yes">> >>
    /\ output.ret.val = <<"1", "2", " eq ", "'", "Yes", "'", " and ", "x", " eq ", "'", "usmf", "'">>

\* the handler run on its own has settled
Settled == step = "done"

\* C29: makeApiCall never rejects: it settles with a result whatever fails,
\* a notification included, and the result has isError = true when the
\* token, the request or the read of the response failed
C29_NeverRejects ==
    Settled =>
        /\ output \in {ApiOk, ApiError}
        /\ Count("return", "makeApiCall") = 1
        /\ local.error \in {"token", "request", "read"} => output = ApiError

C29_Witness ==
    /\ Settled
    /\ local.error = "read"
    /\ \A i \in 1..Len(effects) : effects[i].kind = "notify" => ~effects[i].data
    /\ output = ApiError

\* positions of the token acquisitions and of the HTTP requests of the call
TokenAt == {i \in 1..Len(effects) : effects[i].kind = "token"}
HttpAt == {i \in 1..Len(effects) : effects[i].kind = "http"}

\* C30: in makeApiCall the token is acquired before the HTTP request is
\* issued, at most one HTTP request is issued per call, and none when the
\* token acquisition fails
C30_TokenThenOneRequest ==
    /\ Cardinality(HttpAt) <= 1
    /\ \A h \in HttpAt : \E t \in TokenAt : t < h /\ effects[t].data
    /\ (\E t \in TokenAt : ~effects[t].data) => HttpAt = {}

C30_Witness ==
    /\ Settled
    /\ local.error = "token"
    /\ HttpAt = {}
    /\ output = ApiError

\* an error was thrown inside makeApiCall
ExceptionOccurred == local.error # "none"

\* C31: the result of makeApiCall has isError = true exactly when an
\* exception occurred or the response status is not a 2xx status; a 204
\* and a 2xx body that is not JSON give a result without isError
C31_ErrorIffExceptionOrStatus ==
    Settled =>
        /\ output = ApiError <=>
              \/ ExceptionOccurred
              \/ local.status # 0 /\ ~ResponseOk(local.status)
        /\ (ResponseOk(local.status) /\ local.error \notin {"token", "request", "read"})
              => output = ApiOk

C31_Witness ==
    /\ Settled
    /\ local.status = 200
    /\ local.contentType = "application/json"
    /\ local.body = "notJson"
    /\ ~ExceptionOccurred
    /\ output = ApiOk

\* an odataQuery run of the given version
Query(version) == input.fn = "odataQuery" /\ input.version = version

\* what a run has done apart from its notifications
IsRequest(e) == e.kind # "notify"
Requests(done) == SelectSeq(done, IsRequest)
NotificationsOf(done) == {i \in 1..Len(done) : done[i].kind = "notify"}

\* C32: a failing sendNotification never changes what a tool does: two runs
\* of makeApiCall or of the odataQuery handler on the same input and the
\* same service responses are at the same point, have issued the same calls
\* and requests and have returned the same result, whichever of their
\* notifications failed
C32_NotificationsDoNotInterfere ==
    /\ twin.step = step
    /\ twin.output.kind = output.kind
    /\ twin.output = output
    /\ Len(Requests(twin.effects)) = Len(Requests(effects))
    /\ \A i \in 1..Len(Requests(effects)) :
         /\ Requests(twin.effects)[i].kind = Requests(effects)[i].kind
         /\ Requests(twin.effects)[i].name = Requests(effects)[i].name
         /\ Requests(twin.effects)[i].data = Requests(effects)[i].data

C32_Witness ==
    /\ Settled
    /\ Query(2)
    /\ output = ApiOk
    /\ Count("http", "fetch") = 1
    /\ Cardinality(NotificationsOf(effects)) >= 2
    /\ \A i \in NotificationsOf(effects) : effects[i].data
    /\ \A i \in NotificationsOf(twin.effects) : ~twin.effects[i].data

ApiCalls == Count("call", "makeApiCall")
TheApiCall == effects[IndexOfLast("call", "makeApiCall")].data

\* the filter entries of the query, and those whose key matches no field of
\* the schema in hand
QueryEntries == IF input.filter.null THEN <<>> ELSE ObjectEntries(input.filter.val)
Untyped == {i \in 1..Len(QueryEntries) :
               local.schema.null \/ FindField(local.schema.val, QueryEntries[i][1]) = 0}

\* the value of the $filter parameter of the URL that was built, if any
FilterParams == {i \in 1..Len(local.url.val.params) : local.url.val.params[i].name = "$filter"}
HasClause(clause) ==
    /\ ~local.url.null
    /\ \E i \in FilterParams : IsSubstr(clause, local.url.val.params[i].value)

\* C22: when the type of a filtered field is unknown (no field matches the
\* key, or there is no schema) no clause for the field is sent to the
\* service and the caller gets an error result
C22_NoClauseForUnknownType ==
    (Settled /\ Query(2) /\ Untyped # {})
        => /\ output.kind = "isError"
           /\ \A i \in Untyped :
                ~(ApiCalls > 0 /\ HasClause(QueryEntries[i][1] \o <<" eq ", "'", QueryEntries[i][2], "'">>))

\* C22 as the code has it: without a schema the query is refused; with a
\* schema, a key that matches no field is sent as the string comparison
\* <key> eq '<value>' when the query is executed, and the caller gets the
\* result of the request
C22_UnmatchedKeySentAsString ==
    (Settled /\ Query(2)) =>
        /\ local.schema.null => (output.kind = "isError" /\ ApiCalls = 0)
        /\ (~local.schema.null /\ input.planOnly = "false") =>
              /\ ApiCalls = 1
              /\ TheApiCall[2] = UrlToString(local.url.val)
              /\ \A i \in Untyped :
                   HasClause(QueryEntries[i][1] \o <<" eq ", "'", QueryEntries[i][2], "'">>)
              /\ output \in {ApiOk, ApiError}

C22_Witness ==
    /\ Settled /\ Query(2)
    /\ ~local.schema.null /\ input.planOnly = "false"
    /\ Untyped # {}
    /\ output = ApiOk

\* C23: odataQuery without planOnly or with planOnly = true returns the plan
\* and never calls makeApiCall, for every entity and filter
C23_PlanAlways ==
    (Settled /\ Query(2) /\ input.planOnly \in {"absent", "true"})
        => (output.kind = "plan" /\ ApiCalls = 0)

\* C23 as the code has it: no makeApiCall in plan mode; the plan is returned
\* when the entity resolves and a schema is found, an error otherwise
C23_PlanWhenResolved ==
    (Query(2) /\ input.planOnly \in {"absent", "true"}) =>
        /\ ApiCalls = 0
        /\ Settled => /\ output.kind \in {"plan", "isError"}
                      /\ output.kind = "plan" <=> ~local.schema.null
                      /\ output.kind = "plan" => output.val.url = UrlToString(local.url.val)

C23_Witness ==
    /\ Settled /\ Query(2)
    /\ input.planOnly = "absent"
    /\ ~input.filter.null /\ input.filter.val # <<>>
    /\ output.kind = "plan"

\* the name findBestMatch returned
Resolved == effects[IndexOfLast("return", "findBestMatch")].data

\* C24: with planOnly = false, a resolved entity and a schema, odataQuery
\* calls makeApiCall exactly once, with GET, a null body and the URL path
\* /data/<resolved name>, after findBestMatch and then
\* getEntitySchema(<resolved name>) have returned
C24_ExecutesResolvedName ==
    (Settled /\ Query(2) /\ input.planOnly = "false" /\ ~local.corrected.null /\ ~local.schema.null) =>
        /\ ApiCalls = 1
        /\ TheApiCall[1] = "GET"
        /\ TheApiCall[3] = Null
        /\ Resolved.kind = "value"
        /\ SubSeq(TheApiCall[2], 1, Len(Resolved.val) + 3)
               = <<"DYNAMICS_RESOURCE_URL", "/data/">> \o Resolved.val \o <<"?">>
        /\ effects[IndexOfLast("call", "getEntitySchema")].data = Resolved.val
        /\ IndexOfLast("return", "findBestMatch") < IndexOfLast("call", "getEntitySchema")
        /\ IndexOfLast("return", "getEntitySchema") < IndexOfLast("call", "makeApiCall")
        /\ Count("call", "findBestMatch") = 1 /\ Count("call", "getEntitySchema") = 1

C24_Witness ==
    /\ Settled /\ Query(2) /\ input.planOnly = "false"
    /\ input.entity = qc
    /\ ApiCalls = 1
    /\ SubSeq(TheApiCall[2], 1, 5) = <<"DYNAMICS_RESOURCE_URL", "/data/", "C", "s", "?">>

\* C25: when findBestMatch returns not-found, odataQuery returns an error
\* naming the entity as typed, and neither looks up a schema nor calls
\* makeApiCall, whatever planOnly is
C25_UnresolvedIsError ==
    (Settled /\ input.fn = "odataQuery" /\ Resolved = NotFound) =>
        /\ output.kind = "isError"
        /\ output.val[2] = input.entity
        /\ Count("call", "getEntitySchema") = 0
        /\ ApiCalls = 0

C25_Witness ==
    /\ Settled /\ Query(2) /\ input.planOnly = "false"
    /\ input.entity = qz
    /\ output.kind = "isError"

\* C26: in the planOnly version, when the entity resolves but
\* getEntitySchema returns not-found, the tool returns an error and neither
\* produces a plan nor calls makeApiCall
C26_NoSchemaIsError ==
    (/\ Settled /\ Query(2)
     /\ Count("return", "getEntitySchema") = 1
     /\ effects[IndexOfLast("return", "getEntitySchema")].data = NotFound) =>
        /\ output.kind = "isError"
        /\ local.plan.null
        /\ ApiCalls = 0

C26_Witness ==
    /\ Settled /\ Query(2) /\ input.planOnly = "false"
    /\ ~local.corrected.null
    /\ local.schema.null
    /\ output.kind = "isError"

\* C27: in the earlier version, when no schema is found for the resolved
\* entity every filter key and value is still applied to the request, as a
\* $filter of string comparisons
C27_FallsBackToSimpleFilters ==
    (/\ Settled /\ Query(1)
     /\ ~local.corrected.null /\ local.schema.null
     /\ Len(QueryEntries) > 0) =>
        /\ ApiCalls = 1
        /\ \A i \in 1..Len(QueryEntries) :
             HasClause(QueryEntries[i][1] \o <<" eq ", "'", QueryEntries[i][2], "'">>)

\* C28: every tool other than odataQuery calls makeApiCall exactly once and
\* returns what it returned; listing the tools calls it not at all
C28_OtherToolsCallOnce ==
    /\ input.fn \in OtherTools =>
          /\ ApiCalls <= 1
          /\ Settled => /\ ApiCalls = 1
                        /\ Count("return", "makeApiCall") = 1
                        /\ output = effects[IndexOfLast("return", "makeApiCall")].data
    /\ input.fn = "listTools" => ApiCalls = 0

C28_Witness ==
    /\ Settled
    /\ input.fn = "updateCustomer"
    /\ TheApiCall = <<"PATCH", "/data/CustomersV3", Some(<<"data">>)>>
    /\ output = ApiError

\* the parameters of the URL that was built, by name
UrlParams(name) == {i \in 1..Len(local.url.val.params) : local.url.val.params[i].name = name}
ValueOf(name) == local.url.val.params[CHOOSE i \in UrlParams(name) : TRUE].value

\* the caller filters on a company: a dataAreaId key with a non-empty value
AsksForCompany ==
    /\ ~input.filter.null
    /\ \E i \in 1..Len(input.filter.val) :
         input.filter.val[i][1] = kDataAreaId /\ Len(input.filter.val[i][2]) > 0

\* C36: the URL odataQuery builds carries cross-company=true exactly when
\* crossCompany is true, or the filter has a non-empty dataAreaId and
\* crossCompany is not false; with crossCompany = false it never does
C36_CrossCompanyRule ==
    ~local.url.null =>
        /\ Cardinality(UrlParams("cross-company")) <= 1
        /\ UrlParams("cross-company") # {} <=>
              \/ input.crossCompany = "true"
              \/ AsksForCompany /\ input.crossCompany = "absent"
        /\ UrlParams("cross-company") # {} => ValueOf("cross-company") = <<"true">>
        /\ input.crossCompany = "false" => UrlParams("cross-company") = {}
        /\ ApiCalls = 1 =>
              (IsSubstr(<<"cross-company", "=", "true">>, TheApiCall[2]) <=> UrlParams("cross-company") # {})

\* C36 witness: a query on a company with crossCompany = false is sent
\* without the parameter
C36_Witness ==
    /\ Query(2)
    /\ ApiCalls = 1
    /\ AsksForCompany
    /\ input.crossCompany = "false"
    /\ UrlParams("cross-company") = {}
    /\ UrlParams("$filter") # {}

\* C37: every URL odataQuery builds carries exactly one $top, the caller's
\* top when one is given and the default page size otherwise, and carries
\* $skip exactly when the caller gave a skip
C37_TopAndSkipAsGiven ==
    ~local.url.null =>
        /\ Cardinality(UrlParams("$top")) = 1
        /\ ValueOf("$top") = IF input.top.null THEN NumberToString(DEFAULT_PAGE_SIZE)
                             ELSE NumberToString(input.top.val)
        /\ UrlParams("$skip") # {} <=> ~input.skip.null

\* the plan odataQuery returns for the arguments of this call with
\* planOnly = true, on the entity and the schema this call resolved
PlanForSameArguments ==
    PlanOutput(BuildUrl(local.corrected.val, [input EXCEPT !.planOnly = "true"], local.schema),
               [input EXCEPT !.planOnly = "true"], local.schema)

\* C38: the URL passed to makeApiCall by a call with planOnly = false is
\* exactly the URL shown in the plan that the same arguments with
\* planOnly = true return on the same catalog and schema
C38_PlanUrlIsExecutedUrl ==
    /\ (Query(2) /\ ApiCalls = 1) =>
          /\ input.planOnly = "false"
          /\ TheApiCall[2] = PlanForSameArguments.url
          /\ TheApiCall[2] = local.plan.val.url
    /\ (Query(2) /\ output.kind = "plan") =>
          output.val.url = UrlToString(BuildUrl(local.corrected.val,
                                                [input EXCEPT !.planOnly = "false"], local.schema))

\* C38 witness: an executed query whose URL has an encoded $filter
C38_Witness ==
    /\ Query(2)
    /\ ApiCalls = 1
    /\ UrlParams("$filter") # {}
    /\ UrlParams("cross-company") # {}
    /\ IsSubstr(<<"%24filter", "=">>, TheApiCall[2])

\* a findBestMatch or getEntitySchema call is pending in slot p
Pending(p) == pc[p] \in {"awaitToken", "fetchList", "fetchMeta"}

\* C39: if every token exchange, catalog fetch and metadata fetch completes,
\* every findBestMatch and getEntitySchema call returns, a call that arrived
\* while a population was in progress included
C39_EveryCallReturns == \A p \in Procs : Pending(p) ~> pc[p] = "done"

\* C39 witness: a findBestMatch call that began while another call's catalog
\* fetch was in progress has returned, the other call still awaiting its fetch
C39_Witness ==
    \E p, r \in Procs :
        /\ p # r
        /\ op[p] = "findBestMatch" /\ pc[p] = "done" /\ last = p
        /\ op[r] = "findBestMatch" /\ pc[r] = "fetchList"
        /\ result[p].kind \in {"value", "null"}

\* C40: at every suspension point, and so whenever findBestMatch searches,
\* the index is null together with a null entityCache or was built from
\* exactly the list entityCache holds, however findBestMatch calls interleave
C40_IndexMatchesCatalog ==
    /\ fuse.null <=> entityCache.null
    /\ ~fuse.null => fuse.val = entityCache.val

\* C40 witness: two interleaved calls have each fetched the catalog, the
\* second list has replaced the first, and the index was rebuilt from it
C40_Witness ==
    /\ catalogRequests = 2
    /\ ~entityCache.null /\ entityCache.val = Catalog2
    /\ fuse = entityCache
    /\ \E p, r \in Procs :
         /\ p # r
         /\ op[p] = "findBestMatch" /\ pc[p] = "done" /\ result[p] = Found(nCs)
         /\ op[r] = "findBestMatch" /\ pc[r] = "done"
====
